---- MODULE Spec2Model ----
(***************************************************************************)
(* A model of fdb-vector: a sparse vector layered on an ordered,           *)
(* transactional key-value store.  Keys and values are byte strings        *)
(* (sequences of 0..255); the store is the view of one transaction `tr`,   *)
(* a map from key to value that reads its own writes.                      *)
(***************************************************************************)
EXTENDS Integers, Sequences, FiniteSets, TLC

VARIABLES
    vect,   \* the Vector handle: [subspace, defaultValue]
    tr,     \* the transaction's view of the database: key -> value
    call,   \* the last operation the caller issued, with its arguments
    ret,    \* what that operation returned
    hist,   \* the caller's operations since the vector was last empty
    buf,    \* the byte slice the caller holds: the result of the last ValPack
    vi,     \* the Vectorator the caller holds, with the items it has produced
    store,  \* the committed database the concurrent transactions share
    txns    \* the concurrent transactions: what each runs, read and staged

\* what the single transaction of Spec leaves alone
aside == <<buf, vi, store, txns>>
vars == <<vect, tr, call, ret, hist, buf, vi, store, txns>>

(***************************************************************************)
(* Bounds of the model.                                                    *)
(***************************************************************************)
\* the largest index the caller passes to Set and Get
MaxIndex == 1

\* the indices the caller passes: Set takes any int64, negative ones included
\* (index + 1 and index - 1 stay far from the ends of int64)
Indices == (-1)..MaxIndex

\* the indices a Stored Entry may have: Pop and Push are capped to stay inside
StoredIndices == (-2)..MaxIndex

(***************************************************************************)
(* Byte strings.                                                           *)
(***************************************************************************)
\* bytes.Compare(a, b) from position i on: -1, 0 or 1
RECURSIVE CompareFrom(_, _, _)
CompareFrom(a, b, i) ==
    IF i > Len(a) \/ i > Len(b)
    THEN IF Len(a) < Len(b) THEN -1 ELSE IF Len(a) > Len(b) THEN 1 ELSE 0
    ELSE IF a[i] = b[i] THEN CompareFrom(a, b, i + 1)
    ELSE IF a[i] < b[i] THEN -1 ELSE 1

\* bytes.Compare(a, b): -1, 0 or 1 by byte-lexicographic order
BytesCompare(a, b) == CompareFrom(a, b, 1)

\* binary.Write(buf, binary.BigEndian, u) of the n low-order bytes of u >= 0
RECURSIVE BigEndian(_, _)
BigEndian(u, n) ==
    IF n = 0 THEN <<>> ELSE BigEndian(u \div 256, n - 1) \o <<u % 256>>

\* the unsigned number a big-endian byte string denotes
RECURSIVE FromBigEndian(_)
FromBigEndian(b) ==
    IF Len(b) = 0 THEN 0
    ELSE FromBigEndian(SubSeq(b, 1, Len(b) - 1)) * 256 + b[Len(b)]

\* the bitwise complement of a byte string
Complement(b) == [i \in 1..Len(b) |-> 255 - b[i]]

\* int64 as 8 big-endian bytes, two's complement
Int64Bytes(i) ==
    IF i >= 0 THEN BigEndian(i, 8) ELSE Complement(BigEndian(-i - 1, 8))

\* the int64 that 8 big-endian two's complement bytes denote
BytesInt64(b) ==
    IF b[1] < 128 THEN FromBigEndian(b) ELSE -FromBigEndian(Complement(b)) - 1

(***************************************************************************)
(* Value codec.                                                            *)
(***************************************************************************)
\* the zero Value struct: no kind marker set
EmptyValue ==
    [IsFloat |-> FALSE, IsInt |-> FALSE, IsString |-> FALSE,
     Float |-> <<0, 0, 0, 0, 0, 0, 0, 0>>, Int |-> 0, String |-> <<>>]

\* A scalar the caller passes is [kind, int, float, str]: its dynamic Go type and
\* its payload.  A float is held as the 8 bytes of its IEEE-754 float64 bits, a
\* string as its bytes.
Scalar(kind, int, float, str) ==
    [kind |-> kind, int |-> int, float |-> float, str |-> str]

IntScalar(i) == Scalar("int64", i, EmptyValue.Float, <<>>)
FloatScalar(bits) == Scalar("float64", 0, bits, <<>>)
StringScalar(s) == Scalar("string", 0, EmptyValue.Float, s)
\* any dynamic type valPack's switch has no case for (here a *Value)
OtherScalar == Scalar("*Value", 0, EmptyValue.Float, <<>>)

\* a faulty valPack: its default case encodes the scalar as a string
valPackAnyKind(val) ==
    CASE val.kind \in {"int64", "int"} ->
            [bytes |-> <<1>> \o Int64Bytes(val.int), err |-> "nil"]
      [] val.kind \in {"float64", "float32"} ->
            [bytes |-> <<2>> \o val.float, err |-> "nil"]
      [] OTHER ->
            [bytes |-> <<3>> \o val.str, err |-> "nil"]

\* valPack(val): [bytes, err]
valPack(val) ==
    CASE val.kind \in {"int64", "int"} ->
            [bytes |-> <<1>> \o Int64Bytes(val.int), err |-> "nil"]
      [] val.kind \in {"float64", "float32"} ->
            [bytes |-> <<2>> \o val.float, err |-> "nil"]
      [] val.kind = "string" ->
            [bytes |-> <<3>> \o val.str, err |-> "nil"]
      [] OTHER ->
            [bytes |-> <<>>, err |-> "unencodable element"]

\* valUnpack(b): [val, err]
valUnpack(b) ==
    IF Len(b) = 0
    THEN [val |-> EmptyValue, err |-> "No Byte array to Decode"]
    ELSE LET code == b[1]
             rest == SubSeq(b, 2, Len(b))
             \* binary.Read of 8 bytes: EOF on none, ErrUnexpectedEOF on too few
             short == IF Len(rest) = 0 THEN "EOF"
                      ELSE IF Len(rest) < 8 THEN "unexpected EOF" ELSE "nil"
         IN  CASE code = 1 ->
                    [val |-> [EmptyValue EXCEPT
                                !.IsInt = TRUE,
                                !.Int = IF short = "nil"
                                        THEN BytesInt64(SubSeq(rest, 1, 8))
                                        ELSE 0],
                     err |-> short]
               [] code = 2 ->
                    [val |-> [EmptyValue EXCEPT
                                !.IsFloat = TRUE,
                                !.Float = IF short = "nil"
                                          THEN SubSeq(rest, 1, 8)
                                          ELSE EmptyValue.Float],
                     err |-> short]
               [] code = 3 ->
                    [val |-> [EmptyValue EXCEPT !.IsString = TRUE, !.String = rest],
                     err |-> "nil"]
               [] OTHER ->
                    [val |-> EmptyValue, err |-> "unknown typecode"]

(***************************************************************************)
(* Key codec: subspace.Pack(tuple.Tuple{index}) and subspace.Unpack.       *)
(***************************************************************************)
\* tuple's sizeLimits[n] = (1 << (n * 8)) - 1
RECURSIVE Pow256(_)
Pow256(n) == IF n = 0 THEN 1 ELSE 256 * Pow256(n - 1)

SizeLimit(n) == Pow256(n) - 1

\* tuple's bisectLeft(u): the number of bytes the magnitude u needs
RECURSIVE ByteLen(_)
ByteLen(u) == IF u = 0 THEN 0 ELSE 1 + ByteLen(u \div 256)

\* a faulty encoding: a negative number is written as its magnitude
TuplePackIntMagnitude(i) ==
    IF i = 0 THEN <<20>>
    ELSE IF i > 0
         THEN LET n == ByteLen(i) IN <<20 + n>> \o BigEndian(i, n)
         ELSE LET n == ByteLen(-i) IN <<20 - n>> \o BigEndian(-i, n)

\* the tuple encoding of one int64 element: type code 0x14 for zero, 0x14 + n
\* for a positive and 0x14 - n for a negative number of n bytes
TuplePackInt(i) ==
    IF i = 0 THEN <<20>>
    ELSE IF i > 0
         THEN LET n == ByteLen(i) IN <<20 + n>> \o BigEndian(i, n)
         ELSE LET n == ByteLen(-i) IN <<20 - n>> \o BigEndian(SizeLimit(n) + i, n)

\* bytes.IndexByte(b, c), counted from 0: -1 when b does not hold c
RECURSIVE IndexByteFrom(_, _, _)
IndexByteFrom(b, c, i) ==
    IF i > Len(b) THEN -1
    ELSE IF b[i] = c THEN i - 1 ELSE IndexByteFrom(b, c, i + 1)

IndexByte(b, c) == IndexByteFrom(b, c, 1)

\* tuple's findTerminator(b), with the length counted so far: the offset of
\* the 0x00 that ends a byte string, a 0x00 followed by 0xFF being an escaped
\* zero; -1 where none is found at once
RECURSIVE FindTerminatorFrom(_, _)
FindTerminatorFrom(bp, length) ==
    LET idx == IndexByte(bp, 0)
    IN  IF idx + 1 = Len(bp) \/ bp[idx + 2] # 255
        THEN length + idx
        ELSE FindTerminatorFrom(SubSeq(bp, idx + 3, Len(bp)), length + idx + 2)

FindTerminator(b) == FindTerminatorFrom(b, 0)

\* One element of a tuple, decoded from the bytes b that start with it:
\* [kind, int, off], off being the number of bytes it takes.  The kinds are
\* "nil" (type code 0x00), "bytes" (0x01), "string" (0x02) and "int64" (0x0C to
\* 0x1C); "unknown" stands for any other type code, which tuple.Unpack answers
\* with an error, and "panic" for a slice expression out of range: a byte
\* string findTerminator gives -1 for, or an integer with fewer bytes than
\* its type code announces.
TupleDecode(b) ==
    IF b[1] = 0 THEN [kind |-> "nil", int |-> 0, off |-> 1]
    ELSE IF b[1] \in {1, 2}
    THEN LET idx == FindTerminator(SubSeq(b, 2, Len(b)))
         IN  IF idx < 0 THEN [kind |-> "panic", int |-> 0, off |-> 0]
             ELSE [kind |-> IF b[1] = 1 THEN "bytes" ELSE "string",
                   int |-> 0, off |-> idx + 2]
    ELSE IF b[1] >= 12 /\ b[1] <= 28
    THEN LET n == IF b[1] >= 20 THEN b[1] - 20 ELSE 20 - b[1]
             u == FromBigEndian(SubSeq(b, 2, n + 1))
         IN  IF n + 1 > Len(b) THEN [kind |-> "panic", int |-> 0, off |-> 0]
             ELSE [kind |-> "int64",
                   int |-> IF b[1] >= 20 THEN u ELSE u - SizeLimit(n),
                   off |-> n + 1]
    ELSE [kind |-> "unknown", int |-> 0, off |-> 0]

\* The tuple of the element el followed by the tuple rest, an error or a panic
\* met while decoding rest being passed on
TupleAppend(el, rest) ==
    IF rest.err # "nil" THEN rest ELSE [t |-> <<el>> \o rest.t, err |-> "nil"]

\* tuple.Unpack(b): [t, err], t being the elements decoded one after another
\* until b is used up; err is "nil", the error of an unknown type code, or
\* "PANIC" where decoding an element panics.  TupleUnpackFrom is one turn of
\* its loop, el being the element b starts with.
RECURSIVE TupleUnpack(_)
TupleUnpackFrom(b, el) ==
    IF el.kind = "unknown" THEN [t |-> <<>>, err |-> "unknown tuple typecode"]
    ELSE IF el.kind = "panic" THEN [t |-> <<>>, err |-> "PANIC"]
    ELSE TupleAppend(el, TupleUnpack(SubSeq(b, el.off + 1, Len(b))))

TupleUnpack(b) ==
    IF Len(b) = 0 THEN [t |-> <<>>, err |-> "nil"]
    ELSE TupleUnpackFrom(b, TupleDecode(b))

\* if err != nil { return 0, err }; return islice[0].(int64), nil, of the
\* outcome islice of tuple.Unpack: [index, err].  The first element is taken
\* whatever follows it.  Indexing an empty tuple and asserting the type of an
\* element that is no int64 panic: the call does not return, which
\* err = "PANIC" stands for.
FirstInt64(islice) ==
    IF islice.err # "nil" THEN [index |-> 0, err |-> islice.err]
    ELSE IF Len(islice.t) = 0 \/ islice.t[1].kind # "int64"
    THEN [index |-> 0, err |-> "PANIC"]
    ELSE [index |-> islice.t[1].int, err |-> "nil"]

\* islice, err := tuple.Unpack(b), then islice[0].(int64)
TupleUnpackInt(b) == FirstInt64(TupleUnpack(b))

HasPrefix(b, prefix) ==
    Len(b) >= Len(prefix) /\ SubSeq(b, 1, Len(prefix)) = prefix

\* vect.subspace.FDBRangeKeys(): the namespace is [prefix 0x00, prefix 0xFF)
RangeBegin(v) == v.subspace \o <<0>>
RangeEnd(v) == v.subspace \o <<255>>

\* keyAt(index)
keyAt(v, index) == v.subspace \o TuplePackInt(index)

\* indexAt(key): [index, err]; err = "PANIC" when the call panics, which its
\* callers pass on as they pass on an error: they write nothing after it
indexAt(v, key) ==
    IF HasPrefix(key, v.subspace)
    THEN TupleUnpackInt(SubSeq(key, Len(v.subspace) + 1, Len(key)))
    ELSE [index |-> 0, err |-> "key is not in subspace"]

(***************************************************************************)
(* The store's primitives, on a database view db: key -> value.            *)
(***************************************************************************)
EmptyDB == [k \in {} |-> <<>>]

\* tr.Set(key, value)
DBSet(db, key, value) ==
    [k \in DOMAIN db \cup {key} |-> IF k = key THEN value ELSE db[k]]

\* tr.Clear(key)
DBClear(db, key) == [k \in DOMAIN db \ {key} |-> db[k]]

\* tr.ClearRange([begin, end))
DBClearRange(db, begin, end) ==
    [k \in {x \in DOMAIN db :
                BytesCompare(x, begin) = -1 \/ BytesCompare(x, end) >= 0} |-> db[k]]

\* the least and the greatest key of a non-empty set of keys
MinKey(S) == CHOOSE k \in S : \A x \in S : BytesCompare(k, x) <= 0
MaxKey(S) == CHOOSE k \in S : \A x \in S : BytesCompare(k, x) >= 0

\* tr.GetKey(fdb.LastLessOrEqual(key)): the empty key when there is none
GetKeyLastLessOrEqual(db, key) ==
    LET S == {x \in DOMAIN db : BytesCompare(x, key) <= 0}
    IN  IF S = {} THEN <<>> ELSE MaxKey(S)

\* the keys of S in ascending (descending when reverse) order, at most limit
RECURSIVE KeySlice(_, _, _)
KeySlice(S, limit, reverse) ==
    IF S = {} \/ limit = 0 THEN <<>>
    ELSE LET k == IF reverse THEN MaxKey(S) ELSE MinKey(S)
         IN  <<k>> \o KeySlice(S \ {k}, limit - 1, reverse)

\* a faulty range read: the end key is included
GetRangeClosed(db, begin, end, limit, reverse) ==
    LET S == {x \in DOMAIN db :
                 BytesCompare(x, begin) >= 0 /\ BytesCompare(x, end) <= 0}
        ks == KeySlice(S, IF limit = 0 THEN Cardinality(S) ELSE limit, reverse)
    IN  [i \in 1..Len(ks) |-> [Key |-> ks[i], Value |-> db[ks[i]]]]

\* tr.GetRange([begin, end), RangeOptions{Limit, Reverse}).GetSliceWithError();
\* a Limit of 0, the zero value of RangeOptions, is no limit
GetRange(db, begin, end, limit, reverse) ==
    LET S == {x \in DOMAIN db :
                 BytesCompare(x, begin) >= 0 /\ BytesCompare(x, end) = -1}
        ks == KeySlice(S, IF limit = 0 THEN Cardinality(S) ELSE limit, reverse)
    IN  [i \in 1..Len(ks) |-> [Key |-> ks[i], Value |-> db[ks[i]]]]

(***************************************************************************)
(* The Vector's operations, as functions of the handle v and the view db.  *)
(***************************************************************************)
\* a faulty Size: the index of the last key, without the + 1
SizeOfLastIndex(v, db) ==
    LET lastkey == GetKeyLastLessOrEqual(db, RangeEnd(v))
    IN  IF BytesCompare(lastkey, RangeBegin(v)) = -1
        THEN [size |-> 0, err |-> "nil"]
        ELSE [size |-> indexAt(v, lastkey).index, err |-> indexAt(v, lastkey).err]

\* a faulty Size: without the test for a last key below the begin of the range
SizeNoBegin(v, db) ==
    LET at == indexAt(v, GetKeyLastLessOrEqual(db, RangeEnd(v)))
    IN  IF at.err # "nil"
        THEN [size |-> 0, err |-> at.err]
        ELSE [size |-> at.index + 1, err |-> "nil"]

\* Size(tr): [size, err]
Size(v, db) ==
    LET lastkey == GetKeyLastLessOrEqual(db, RangeEnd(v))
    IN  IF BytesCompare(lastkey, RangeBegin(v)) = -1
        THEN [size |-> 0, err |-> "nil"]
        ELSE LET at == indexAt(v, lastkey)
             IN  IF at.err # "nil"
                 THEN [size |-> 0, err |-> at.err]
                 ELSE [size |-> at.index + 1, err |-> "nil"]

\* Set(index, val, tr): [tr, err]
Set(v, db, index, val) ==
    LET packed == valPack(val)
    IN  IF packed.err # "nil"
        THEN [tr |-> db, err |-> packed.err]
        ELSE [tr |-> DBSet(db, keyAt(v, index), packed.bytes), err |-> "nil"]

\* a faulty Get: without the test for a negative index
GetUnchecked(v, db, index) ==
    LET start == keyAt(v, index)
        justOne == GetRange(db, start, RangeEnd(v), 1, FALSE)
    IN  IF Len(justOne) = 0
        THEN [val |-> EmptyValue, isNil |-> TRUE, err |-> "out of range"]
        ELSE IF BytesCompare(start, justOne[1].Key) = 0
             THEN [val |-> valUnpack(justOne[1].Value).val, isNil |-> FALSE,
                   err |-> valUnpack(justOne[1].Value).err]
             ELSE [val |-> EmptyValue, isNil |-> FALSE, err |-> "nil"]

\* a faulty Get: the configured default, as a string Value, on a sparse gap
GetDefaultOnGap(v, db, index) ==
    LET r == GetUnchecked(v, db, index)
    IN  IF index < 0
        THEN [val |-> EmptyValue, isNil |-> TRUE, err |-> "out of range"]
        ELSE IF r.err = "nil" /\ r.val = EmptyValue
             THEN [r EXCEPT !.val = valUnpack(valPack(StringScalar(v.defaultValue)).bytes).val]
             ELSE r

\* Get(index, tr): [val, isNil, err]; isNil tells the returned *Value is nil
Get(v, db, index) ==
    IF index < 0
    THEN [val |-> EmptyValue, isNil |-> TRUE, err |-> "out of range"]
    ELSE LET start == keyAt(v, index)
             justOne == GetRange(db, start, RangeEnd(v), 1, FALSE)
         IN  IF Len(justOne) = 0
             THEN [val |-> EmptyValue, isNil |-> TRUE, err |-> "out of range"]
             ELSE IF BytesCompare(start, justOne[1].Key) = 0
                  THEN LET u == valUnpack(justOne[1].Value)
                       IN  IF u.err # "nil"
                           THEN [val |-> EmptyValue, isNil |-> TRUE, err |-> u.err]
                           ELSE [val |-> u.val, isNil |-> FALSE, err |-> "nil"]
                  ELSE [val |-> EmptyValue, isNil |-> FALSE, err |-> "nil"]

\* a faulty Push: writes at the last index, Size - 1, instead of Size
PushOverLast(v, db, val) ==
    IF valPack(val).err # "nil"
    THEN [tr |-> db, err |-> valPack(val).err]
    ELSE [tr |-> DBSet(db, keyAt(v, Size(v, db).size - 1), valPack(val).bytes),
          err |-> "nil"]

\* Push(val, tr): [tr, err]
Push(v, db, val) ==
    LET sz == Size(v, db)
        packed == valPack(val)
    IN  IF sz.err # "nil"
        THEN [tr |-> db, err |-> sz.err]
        ELSE IF packed.err # "nil"
             THEN [tr |-> db, err |-> packed.err]
             ELSE [tr |-> DBSet(db, keyAt(v, sz.size), packed.bytes), err |-> "nil"]

\* a faulty test: Pop never materializes the second to last item
NeverMaterializes(n, top, below) == FALSE

\* a faulty test: Pop writes the default below every top but that of index 0
MaterializesBelowTop(n, top, below) == top # 0

\* Pop's test for "the second to last item is being represented sparsely":
\* n entries were read, with indices top and (when n = 2) below
PopMaterializes(n, top, below) ==
    top # 0 /\ (n = 1 \/ top > below + 1)

\* Pop(tr): [tr, val, isNil, err]
Pop(v, db) ==
    LET lastTwo == GetRange(db, RangeBegin(v), RangeEnd(v), 2, TRUE)
        at == [i \in 1..Len(lastTwo) |-> indexAt(v, lastTwo[i].Key)]
        \* indices := make([]int64, 2): zero where no entry was read
        indices == [i \in 1..2 |-> IF i <= Len(lastTwo) THEN at[i].index ELSE 0]
        failed == {i \in 1..Len(lastTwo) : at[i].err # "nil"}
    IN  IF failed # {}
        THEN [tr |-> db, val |-> EmptyValue, isNil |-> TRUE,
              err |-> at[CHOOSE i \in failed : \A j \in failed : i <= j].err]
        ELSE IF Len(lastTwo) = 0
        THEN [tr |-> db, val |-> EmptyValue, isNil |-> FALSE, err |-> "nil"]
        ELSE LET packed == valPack(StringScalar(v.defaultValue))
                 sparse == PopMaterializes(Len(lastTwo), indices[1], indices[2])
                 written == IF sparse
                            THEN DBSet(db, keyAt(v, indices[1] - 1), packed.bytes)
                            ELSE db
                 cleared == DBClear(written, lastTwo[1].Key)
                 u == valUnpack(lastTwo[1].Value)
             IN  IF sparse /\ packed.err # "nil"
                 THEN [tr |-> db, val |-> EmptyValue, isNil |-> TRUE,
                       err |-> packed.err]
                 ELSE IF u.err # "nil"
                 THEN [tr |-> cleared, val |-> EmptyValue, isNil |-> TRUE,
                       err |-> u.err]
                 ELSE [tr |-> cleared, val |-> u.val, isNil |-> FALSE,
                       err |-> "nil"]

\* a faulty Back: the scan is not reversed, so it reads the first entry
BackForward(v, db) ==
    LET last == GetRange(db, RangeBegin(v), RangeEnd(v), 1, FALSE)
    IN  IF Len(last) = 0
        THEN [val |-> EmptyValue, isNil |-> FALSE, err |-> "nil"]
        ELSE [val |-> valUnpack(last[1].Value).val, isNil |-> FALSE,
              err |-> valUnpack(last[1].Value).err]

\* a faulty Back: Get(Size - 1), which fails on the empty vector
BackByGet(v, db) == Get(v, db, Size(v, db).size - 1)

\* Back(tr): [val, isNil, err]
Back(v, db) ==
    LET last == GetRange(db, RangeBegin(v), RangeEnd(v), 1, TRUE)
    IN  IF Len(last) = 0
        THEN [val |-> EmptyValue, isNil |-> FALSE, err |-> "nil"]
        ELSE LET u == valUnpack(last[1].Value)
             IN  IF u.err # "nil"
                 THEN [val |-> EmptyValue, isNil |-> TRUE, err |-> u.err]
                 ELSE [val |-> u.val, isNil |-> FALSE, err |-> "nil"]

\* a faulty Clear: clears from the key of index 0 on
ClearFromZero(v, db) == DBClearRange(db, keyAt(v, 0), RangeEnd(v))

\* Clear(tr): the view after tr.ClearRange(vect.subspace)
Clear(v, db) == DBClearRange(db, RangeBegin(v), RangeEnd(v))

(***************************************************************************)
(* The caller: one transaction issuing operations on one Vector.           *)
(***************************************************************************)
\* the directory layer's prefix of the vector's subspace
Subspace == <<21, 7>>

\* the default values a Vector is configured with: "" (a Vector literal that
\* leaves defaultValue out) and "d"
Defaults == {<<>>, <<100>>}

\* the scalars the caller passes: "a", int64(-2), a *Value
Scalars == {StringScalar(<<97>>), IntScalar(-2), OtherScalar}

NoScalar == Scalar("", 0, EmptyValue.Float, <<>>)

Called(op, index, val) == [op |-> op, index |-> index, val |-> val]

Returned(val, isNil, size, err) ==
    [val |-> val, isNil |-> isNil, size |-> size, err |-> err]

\* hist sums up the mutating calls since the vector was created or cleared:
\*   setIdx, setVal  the indices Set and, while it is a single index, the
\*                   scalar of the last Set,
\*   pops            the number of Pops that followed these Sets,
\*   other           whether the calls were anything but Sets followed by Pops,
\*   stack, base     the scalars pushed and not yet popped since the last Set or
\*                   Clear, and the Size the first of these Pushes found,
\*   cleared         whether the Clear that emptied the vector removed entries
Fresh ==
    [setIdx |-> {}, setVal |-> NoScalar, pops |-> 0, other |-> FALSE,
     stack |-> <<>>, base |-> 0, cleared |-> FALSE]
Spoiled(h) ==
    [Fresh EXCEPT !.other = TRUE, !.stack = h.stack, !.base = h.base]

\* the indices of the Stored Entries of the namespace
StoredIdx(v, db) ==
    {i \in StoredIndices : keyAt(v, i) \in DOMAIN db}

\* VectRange{Start, Stop, Step}
VectRange(start, stop, step) == [Start |-> start, Stop |-> stop, Step |-> step]

\* A Vectorator is held as
\*   range    the VectRange it was made for,
\*   kvs      the key-value pairs its fdb.RangeIterator ri is to yield,
\*   pos      how many of them ri has advanced to,
\*   pending  whether ri has advanced to an item that Get has not yet read,
\*   open     whether Advance has not yet returned false,
\*   seen     the IndexValues Get has returned so far.
\* NoIterator: the caller holds no iterator
NoIterator ==
    [range |-> VectRange(0, 0, 0), kvs |-> <<>>, pos |-> 0, pending |-> FALSE,
     open |-> FALSE, seen |-> <<>>]

\* nothing goes on beside the single transaction
AsideIdle ==
    /\ buf = <<>>
    /\ vi = NoIterator
    /\ store = EmptyDB
    /\ txns = <<>>

Init ==
    /\ vect \in [subspace : {Subspace}, defaultValue : Defaults]
    /\ tr = EmptyDB
    /\ call = Called("new", 0, NoScalar)
    /\ ret = Returned(EmptyValue, TRUE, 0, "nil")
    /\ hist = Fresh
    /\ AsideIdle

SizeCall ==
    LET r == Size(vect, tr)
    IN  /\ call' = Called("Size", 0, NoScalar)
        /\ ret' = Returned(EmptyValue, TRUE, r.size, r.err)
        /\ UNCHANGED <<vect, tr, hist>>
        /\ UNCHANGED aside

SetCall(index, val) ==
    LET r == Set(vect, tr, index, val)
    IN  /\ tr' = r.tr
        /\ call' = Called("Set", index, val)
        /\ ret' = Returned(EmptyValue, TRUE, 0, r.err)
        /\ hist' = IF r.err # "nil" THEN hist
                   ELSE IF hist.other \/ hist.pops > 0 THEN Spoiled(Fresh)
                   ELSE [Fresh EXCEPT !.setIdx = hist.setIdx \cup {index},
                                      !.setVal = IF hist.setIdx \subseteq {index}
                                                 THEN val ELSE NoScalar]
        /\ UNCHANGED vect
        /\ UNCHANGED aside

GetCall(index) ==
    LET r == Get(vect, tr, index)
    IN  /\ call' = Called("Get", index, NoScalar)
        /\ ret' = Returned(r.val, r.isNil, 0, r.err)
        /\ UNCHANGED <<vect, tr, hist>>
        /\ UNCHANGED aside

PushCall(val) ==
    LET r == Push(vect, tr, val)
    IN  /\ Size(vect, tr).size \in StoredIndices
        /\ tr' = r.tr
        /\ call' = Called("Push", 0, val)
        /\ ret' = Returned(EmptyValue, TRUE, 0, r.err)
        /\ hist' = IF r.err # "nil" THEN hist
                   ELSE [Spoiled(hist) EXCEPT
                           !.stack = Append(hist.stack, val),
                           !.base = IF hist.stack = <<>>
                                    THEN Size(vect, tr).size ELSE hist.base]
        /\ UNCHANGED vect
        /\ UNCHANGED aside

\* Pop by a caller whose Stored Entries stay at the indices of within
PopCallIn(within) ==
    LET r == Pop(vect, tr)
    IN  /\ DOMAIN r.tr \ DOMAIN tr \subseteq {keyAt(vect, i) : i \in within}
        /\ tr' = r.tr
        /\ call' = Called("Pop", 0, NoScalar)
        /\ ret' = Returned(r.val, r.isNil, 0, r.err)
        /\ hist' = LET rest == IF hist.stack = <<>> THEN <<>>
                                ELSE SubSeq(hist.stack, 1, Len(hist.stack) - 1)
                       h == [hist EXCEPT !.stack = rest,
                                         !.base = IF rest = <<>> THEN 0 ELSE @]
                   IN  IF tr' = tr THEN hist
                       ELSE IF hist.other \/ hist.setIdx = {} THEN Spoiled(h)
                       ELSE [h EXCEPT !.pops = @ + 1, !.cleared = FALSE]
        /\ UNCHANGED vect
        /\ UNCHANGED aside

PopCall == PopCallIn(StoredIndices)

BackCall ==
    LET r == Back(vect, tr)
    IN  /\ call' = Called("Back", 0, NoScalar)
        /\ ret' = Returned(r.val, r.isNil, 0, r.err)
        /\ UNCHANGED <<vect, tr, hist>>
        /\ UNCHANGED aside

ClearCall ==
    /\ tr' = Clear(vect, tr)
    /\ call' = Called("Clear", 0, NoScalar)
    /\ ret' = Returned(EmptyValue, TRUE, 0, "nil")
    /\ hist' = [Fresh EXCEPT !.cleared = (tr' # tr)]
    /\ UNCHANGED vect
    /\ UNCHANGED aside

Next ==
    \/ SizeCall
    \/ \E index \in Indices, val \in Scalars : SetCall(index, val)
    \/ \E index \in Indices \cup {MaxIndex + 1} : GetCall(index)
    \/ \E val \in Scalars : PushCall(val)
    \/ PopCall
    \/ BackCall
    \/ ClearCall

Spec == Init /\ [][Next]_vars

(***************************************************************************)
(* The same caller on a longer vector: Set at any index of 0..SparseIndex, *)
(* so that a Pop leaves sparse gaps below the top for the next Pops.       *)
(***************************************************************************)
\* the largest index this caller passes to Set
SparseIndex == 3

SparseIndices == 0..SparseIndex

NextSparse ==
    \/ SizeCall
    \/ \E index \in SparseIndices, val \in Scalars : SetCall(index, val)
    \/ \E index \in SparseIndices \cup {SparseIndex + 1} : GetCall(index)
    \/ PopCallIn(SparseIndices)
    \/ BackCall
    \/ ClearCall

SpecSparse == Init /\ [][NextSparse]_vars

(***************************************************************************)
(* The same caller on a namespace that another writer has already written  *)
(* to with tr.Set, bypassing the Vector: the entries found there need not  *)
(* decode.  hist tells nothing here.                                       *)
(***************************************************************************)
\* keys of the namespace another writer may have set: those of index 0 and
\* MaxIndex, and one whose suffix has the unknown tuple type code 0x40
RawKeys(v) == {keyAt(v, 0), keyAt(v, MaxIndex), v.subspace \o <<64>>}

\* further keys it may have set, with a value that decodes: one whose suffix
\* is the tuple (nil), and one whose suffix is the tuple (0, 0)
RawTupleKeys(v) == {v.subspace \o <<0>>, v.subspace \o <<20, 20>>}

\* values another writer may have set: what valPack gives for "a", no bytes,
\* an unknown tag, and the tag of an int64 followed by one byte only
RawValues == {valPack(StringScalar(<<97>>)).bytes, <<>>, <<9>>, <<1, 0>>}

\* the views that hold some of these keys
RawViews(v) ==
    LET plain == UNION {[K -> RawValues] : K \in SUBSET RawKeys(v)}
        odd == UNION {[T -> {valPack(StringScalar(<<97>>)).bytes}] :
                         T \in SUBSET RawTupleKeys(v)}
    IN  {[k \in DOMAIN f \cup DOMAIN g |-> IF k \in DOMAIN g THEN g[k] ELSE f[k]] :
            f \in plain, g \in odd}

InitShared ==
    /\ vect \in [subspace : {Subspace}, defaultValue : Defaults]
    /\ tr \in RawViews(vect)
    /\ call = Called("new", 0, NoScalar)
    /\ ret = Returned(EmptyValue, TRUE, 0, "nil")
    /\ hist = Fresh
    /\ AsideIdle

NextShared ==
    \/ SizeCall
    \/ \E index \in {0, MaxIndex}, val \in {StringScalar(<<97>>), OtherScalar} :
           SetCall(index, val)
    \/ \E index \in {-1, 0, MaxIndex} : GetCall(index)
    \/ \E val \in {StringScalar(<<97>>), OtherScalar} : PushCall(val)
    \/ PopCall
    \/ BackCall
    \/ ClearCall

SpecShared == InitShared /\ [][NextShared]_vars

(***************************************************************************)
(* Two Vectors on two subspaces of one database, which also holds keys of  *)
(* neither: the caller issues the operations of either Vector in one       *)
(* transaction.  call.on is the subspace of the Vector the call was on.    *)
(***************************************************************************)
\* the prefix of the second Vector's subspace: the directory layer gives no
\* subspace a prefix that another one's starts with
OtherSubspace == <<21, 5>>

\* the second Vector
OtherVect(v) == [subspace |-> OtherSubspace, defaultValue |-> v.defaultValue]

\* the Vector of the two that is not v
Neighbour(v, w) == IF w = v THEN OtherVect(v) ELSE v

\* keys of neither subspace: below both, between the two, and above both
ForeignKeys == {<<20>>, <<21, 6, 20>>, <<21, 8, 20>>}

\* the entries of db whose keys start with the subspace of v
Inside(v, db) ==
    [k \in {x \in DOMAIN db : HasPrefix(x, v.subspace)} |-> db[k]]

\* the keys whose entry differs between two views
Touched(before, after) ==
    {k \in DOMAIN before \cup DOMAIN after :
        \/ k \notin DOMAIN before
        \/ k \notin DOMAIN after
        \/ before[k] # after[k]}

CalledOn(v, op, index, val) ==
    [op |-> op, on |-> v.subspace, index |-> index, val |-> val]

InitIsolated ==
    /\ vect = [subspace |-> Subspace, defaultValue |-> <<100>>]
    /\ tr \in {EmptyDB, [k \in ForeignKeys |-> <<9>>]}
    /\ call = CalledOn(vect, "new", 0, NoScalar)
    /\ ret = Returned(EmptyValue, TRUE, 0, "nil")
    /\ hist = Fresh
    /\ AsideIdle

SizeOn(v) ==
    LET r == Size(v, tr)
    IN  /\ call' = CalledOn(v, "Size", 0, NoScalar)
        /\ ret' = Returned(EmptyValue, TRUE, r.size, r.err)
        /\ UNCHANGED <<vect, tr, hist>>
        /\ UNCHANGED aside

SetOn(v, index, val) ==
    LET r == Set(v, tr, index, val)
    IN  /\ tr' = r.tr
        /\ call' = CalledOn(v, "Set", index, val)
        /\ ret' = Returned(EmptyValue, TRUE, 0, r.err)
        /\ UNCHANGED <<vect, hist>>
        /\ UNCHANGED aside

GetOn(v, index) ==
    LET r == Get(v, tr, index)
    IN  /\ call' = CalledOn(v, "Get", index, NoScalar)
        /\ ret' = Returned(r.val, r.isNil, 0, r.err)
        /\ UNCHANGED <<vect, tr, hist>>
        /\ UNCHANGED aside

PushOn(v, val) ==
    LET r == Push(v, tr, val)
    IN  /\ Size(v, tr).size \in 0..MaxIndex
        /\ tr' = r.tr
        /\ call' = CalledOn(v, "Push", 0, val)
        /\ ret' = Returned(EmptyValue, TRUE, 0, r.err)
        /\ UNCHANGED <<vect, hist>>
        /\ UNCHANGED aside

PopOn(v) ==
    LET r == Pop(v, tr)
    IN  /\ tr' = r.tr
        /\ call' = CalledOn(v, "Pop", 0, NoScalar)
        /\ ret' = Returned(r.val, r.isNil, 0, r.err)
        /\ UNCHANGED <<vect, hist>>
        /\ UNCHANGED aside

BackOn(v) ==
    LET r == Back(v, tr)
    IN  /\ call' = CalledOn(v, "Back", 0, NoScalar)
        /\ ret' = Returned(r.val, r.isNil, 0, r.err)
        /\ UNCHANGED <<vect, tr, hist>>
        /\ UNCHANGED aside

ClearOn(v) ==
    /\ tr' = Clear(v, tr)
    /\ call' = CalledOn(v, "Clear", 0, NoScalar)
    /\ ret' = Returned(EmptyValue, TRUE, 0, "nil")
    /\ UNCHANGED <<vect, hist>>
    /\ UNCHANGED aside

\* the two Vectors of the caller
Vectors == {vect, OtherVect(vect)}

NextIsolated ==
    \/ \E v \in Vectors : SizeOn(v)
    \/ \E v \in Vectors, index \in {0, MaxIndex} :
           SetOn(v, index, StringScalar(<<97>>))
    \/ \E v \in Vectors, index \in 0..(MaxIndex + 1) : GetOn(v, index)
    \/ \E v \in Vectors : PushOn(v, StringScalar(<<97>>))
    \/ \E v \in Vectors : PopOn(v)
    \/ \E v \in Vectors : BackOn(v)
    \/ \E v \in Vectors : ClearOn(v)

SpecIsolated == InitIsolated /\ [][NextIsolated]_vars

(***************************************************************************)
(* The exported value codec of keyvalue.go, and a caller that packs a      *)
(* scalar and unpacks the bytes it got, as TestPackUnpack does.            *)
(***************************************************************************)
\* a faulty ValPack: a string is written with a terminating zero byte
ValPackTerminated(val) ==
    CASE val.kind \in {"int64", "int"} ->
            [bytes |-> <<1>> \o Int64Bytes(val.int), err |-> "nil"]
      [] val.kind \in {"float64", "float32"} ->
            [bytes |-> <<2>> \o val.float, err |-> "nil"]
      [] val.kind = "string" ->
            [bytes |-> <<3>> \o val.str \o <<0>>, err |-> "nil"]
      [] OTHER ->
            [bytes |-> <<>>, err |-> "unencodable element"]

\* ValPack(val): [bytes, err]
ValPack(val) ==
    CASE val.kind \in {"int64", "int"} ->
            [bytes |-> <<1>> \o Int64Bytes(val.int), err |-> "nil"]
      [] val.kind \in {"float64", "float32"} ->
            [bytes |-> <<2>> \o val.float, err |-> "nil"]
      [] val.kind = "string" ->
            [bytes |-> <<3>> \o val.str, err |-> "nil"]
      [] OTHER ->
            [bytes |-> <<>>, err |-> "unencodable element"]

\* a faulty ValUnpack: an unknown type code is no error, the zero Value is
\* returned for it
ValUnpackLenient(b) ==
    IF Len(b) = 0
    THEN [val |-> EmptyValue, err |-> "No Byte array to Decode"]
    ELSE IF b[1] \notin {1, 2, 3}
    THEN [val |-> EmptyValue, err |-> "nil"]
    ELSE valUnpack(b)

\* ValUnpack(b): [val, err]
ValUnpack(b) ==
    IF Len(b) = 0
    THEN [val |-> EmptyValue, err |-> "No Byte array to Decode"]
    ELSE LET code == b[1]
             rest == SubSeq(b, 2, Len(b))
             short == IF Len(rest) = 0 THEN "EOF"
                      ELSE IF Len(rest) < 8 THEN "unexpected EOF" ELSE "nil"
         IN  CASE code = 1 ->
                    [val |-> [EmptyValue EXCEPT
                                !.IsInt = TRUE,
                                !.Int = IF short = "nil"
                                        THEN BytesInt64(SubSeq(rest, 1, 8))
                                        ELSE 0],
                     err |-> short]
               [] code = 2 ->
                    [val |-> [EmptyValue EXCEPT
                                !.IsFloat = TRUE,
                                !.Float = IF short = "nil"
                                          THEN SubSeq(rest, 1, 8)
                                          ELSE EmptyValue.Float],
                     err |-> short]
               [] code = 3 ->
                    [val |-> [EmptyValue EXCEPT !.IsString = TRUE, !.String = rest],
                     err |-> "nil"]
               [] OTHER ->
                    [val |-> EmptyValue, err |-> "unknown typecode"]

\* the longest string the caller packs
MaxLen == 3

\* the bytes of the strings: "a" and the three bytes of the UTF-8 text "\u2622"
TextBytes == {97, 226, 152, 162}

\* the byte strings of length at most n over the bytes B
RECURSIVE BytesUpTo(_, _)
BytesUpTo(B, n) ==
    IF n = 0 THEN {<<>>}
    ELSE LET shorter == BytesUpTo(B, n - 1)
         IN  shorter \cup {Append(b, x) : b \in shorter, x \in B}

\* the integers the caller packs: around zero, around the one-, two- and
\* three-byte boundaries, and the largest magnitudes the checker's integers hold
CodecInts ==
    ((-3)..3) \cup {-2147483647, -16777216, -65537, -65536, -257, -256, -255,
                    255, 256, 257, 65535, 65536, 16777216, 2147483647}

\* the float64 bit patterns the caller packs: 0, -0, 3.25, +Inf and a NaN
CodecFloats ==
    {<<0, 0, 0, 0, 0, 0, 0, 0>>, <<128, 0, 0, 0, 0, 0, 0, 0>>,
     <<64, 10, 0, 0, 0, 0, 0, 0>>, <<127, 240, 0, 0, 0, 0, 0, 0>>,
     <<127, 248, 0, 0, 0, 0, 0, 1>>}

\* the scalars the caller packs: every supported dynamic type, and a *Value.
\* A float32 is held as the bits of float64(v), the conversion ValPack applies.
CodecScalars ==
    {Scalar(k, i, EmptyValue.Float, <<>>) : k \in {"int64", "int"}, i \in CodecInts}
    \cup {Scalar(k, 0, f, <<>>) : k \in {"float64", "float32"}, f \in CodecFloats}
    \cup {StringScalar(t) : t \in BytesUpTo(TextBytes, MaxLen)}
    \cup {OtherScalar}

InitCodec ==
    /\ vect = [subspace |-> Subspace, defaultValue |-> <<>>]
    /\ tr = EmptyDB
    /\ call = Called("new", 0, NoScalar)
    /\ ret = Returned(EmptyValue, TRUE, 0, "nil")
    /\ hist = Fresh
    /\ AsideIdle

\* b, err := ValPack(val)
ValPackCall(val) ==
    LET r == ValPack(val)
    IN  /\ buf' = r.bytes
        /\ call' = Called("ValPack", 0, val)
        /\ ret' = Returned(EmptyValue, TRUE, 0, r.err)
        /\ UNCHANGED <<vect, tr, hist, vi, store, txns>>

\* v, err := ValUnpack(b), of the bytes the last ValPack returned; call keeps
\* the scalar they were packed from
ValUnpackCall ==
    LET r == ValUnpack(buf)
    IN  /\ call.op = "ValPack"
        /\ call' = Called("ValUnpack", 0, call.val)
        /\ ret' = Returned(r.val, FALSE, 0, r.err)
        /\ UNCHANGED <<vect, tr, hist, buf, vi, store, txns>>

\* the first bytes of the byte slices the caller has not packed itself: the
\* three tags, and type codes ValUnpack's switch has no case for
RawTags == {0, 1, 2, 3, 4, 255}

\* what follows the first byte: nothing, fewer than 8 bytes, the 8 bytes of an
\* int64 or a float64, and 9 bytes
RawPayloads ==
    BytesUpTo(TextBytes, MaxLen)
    \cup {Int64Bytes(i) : i \in {-1, 0, 258}}
    \cup {Int64Bytes(i) \o <<7>> : i \in {-1, 0, 258}}

\* the byte slices the caller hands to ValUnpack: stored bytes of any origin.
\* The bits of the floats follow every first byte but the tag of an int64, as
\* the int64 they denote is beyond the integers of the checker.
RawBytes ==
    {<<>>}
    \cup {<<t>> \o p : t \in RawTags, p \in RawPayloads}
    \cup {<<t>> \o f : t \in RawTags \ {1}, f \in CodecFloats}

\* v, err := ValUnpack(b), of bytes b the caller got from elsewhere
ValUnpackBytesCall(b) ==
    LET r == ValUnpack(b)
    IN  /\ buf' = b
        /\ call' = Called("ValUnpack", 0, NoScalar)
        /\ ret' = Returned(r.val, FALSE, 0, r.err)
        /\ UNCHANGED <<vect, tr, hist, vi, store, txns>>

NextCodec ==
    \/ \E val \in CodecScalars : ValPackCall(val)
    \/ ValUnpackCall
    \/ \E b \in RawBytes : ValUnpackBytesCall(b)

SpecCodec == InitCodec /\ [][NextCodec]_vars

(***************************************************************************)
(* The key codec on its own: a caller that asks for the key of one index   *)
(* after another, as TestKeyAtIndexAt does for the index 3.  hist holds    *)
(* the index and the key of the call before, buf the key just returned.    *)
(***************************************************************************)
\* the indices the caller asks the key of: around zero and around the ends of
\* the one-, two- and three-byte encodings, of either sign
KeyIndices ==
    ((-MaxIndex - 2)..(MaxIndex + 2))
    \cup {-16777215, -16777214, -65537, -65536, -65535, -257, -256, -255, -254,
          254, 255, 256, 257, 65535, 65536, 65537, 16777214, 16777215}

\* no key has been asked for yet
NoKey == [op |-> "new", index |-> 0, key |-> <<>>]

InitKeys ==
    /\ vect = [subspace |-> Subspace, defaultValue |-> <<>>]
    /\ tr = EmptyDB
    /\ call = Called("new", 0, NoScalar)
    /\ ret = Returned(EmptyValue, TRUE, 0, "nil")
    /\ hist = NoKey
    /\ AsideIdle

\* key := vector.keyAt(index)
KeyAtCall(index) ==
    /\ buf' = keyAt(vect, index)
    /\ call' = Called("keyAt", index, NoScalar)
    /\ hist' = [op |-> call.op, index |-> call.index, key |-> buf]
    /\ UNCHANGED <<vect, tr, ret, vi, store, txns>>

\* i, err := vector.indexAt(key), of the key just returned
IndexAtCall ==
    LET r == indexAt(vect, buf)
    IN  /\ call.op = "keyAt"
        /\ ret' = Returned(EmptyValue, TRUE, r.index, r.err)
        /\ call' = Called("indexAt", call.index, NoScalar)
        /\ UNCHANGED <<vect, tr, hist, buf, vi, store, txns>>

NextKeys ==
    \/ \E index \in KeyIndices : KeyAtCall(index)
    \/ IndexAtCall

SpecKeys == InitKeys /\ [][NextKeys]_vars

(***************************************************************************)
(* GetRange and the Vectorator.  Vector.GetRange is not among the sources: *)
(* it is modelled on section 4.4 of the specification; Advance and Get are *)
(* those of keyvalue.go.  The caller builds a vector with Sets, asks for a *)
(* range and runs the loop  for vi.Advance() { vi.Get() }  to its end      *)
(* before it writes again.                                                 *)
(***************************************************************************)
\* GetRange(vr, tr): [kvs, err], kvs being what the range read is to yield.
\* A negative Start or Stop counts from Size and is clamped at 0; a Stop of 0
\* stands for Size; the direction is ascending if Start <= Stop and descending
\* otherwise, unless the sign of Step says which; ascending reads
\* [keyAt(Start), keyAt(Stop)), descending the mirrored bounds, read here as
\* the indices Start down to Stop + 1.
VectorGetRange(v, db, vr) ==
    LET sz == Size(v, db)
        FromSize(i) == IF sz.size + i < 0 THEN 0 ELSE sz.size + i
        start == IF vr.Start < 0 THEN FromSize(vr.Start) ELSE vr.Start
        stop == IF vr.Stop = 0 THEN sz.size
                ELSE IF vr.Stop < 0 THEN FromSize(vr.Stop) ELSE vr.Stop
        ascending == IF vr.Step > 0 THEN TRUE
                     ELSE IF vr.Step < 0 THEN FALSE ELSE start <= stop
    IN  IF sz.err # "nil"
        THEN [kvs |-> <<>>, err |-> sz.err]
        ELSE [kvs |-> IF ascending
                      THEN GetRange(db, keyAt(v, start), keyAt(v, stop), 0, FALSE)
                      ELSE GetRange(db, keyAt(v, stop + 1), keyAt(v, start + 1),
                                    0, TRUE),
              err |-> "nil"]

\* a faulty Vectorator.Get: the index is left at its zero value
VectoratorGetNoIndex(v, kv) ==
    [iv |-> [Index |-> 0, Value |-> ValUnpack(kv.Value).val],
     err |-> ValUnpack(kv.Value).err]

\* Vectorator.Get() on the key-value pair kv that ri.Get() returns: [iv, err]
VectoratorGet(v, kv) ==
    LET val == ValUnpack(kv.Value)
        idx == indexAt(v, kv.Key)
        none == [Index |-> 0, Value |-> EmptyValue]
    IN  IF val.err # "nil" THEN [iv |-> none, err |-> val.err]
        ELSE IF idx.err # "nil" THEN [iv |-> none, err |-> idx.err]
        ELSE [iv |-> [Index |-> idx.index, Value |-> val.val], err |-> "nil"]

\* the indices the caller Sets, and the string it Sets at each: vals[i] of
\* TestGetRange, "a" at 0, "b" at 1 and so on
RangeIndices == 0..(MaxIndex + 1)
RangeVals(i) == StringScalar(<<97 + i>>)

\* the Start and Stop the caller asks for, and the Step
RangeEnds == (-1)..(MaxIndex + 2)
RangeSteps == {-1, 0, 1}

InitRange ==
    /\ vect = [subspace |-> Subspace, defaultValue |-> <<>>]
    /\ tr = EmptyDB
    /\ call = Called("new", 0, NoScalar)
    /\ ret = Returned(EmptyValue, TRUE, 0, "nil")
    /\ hist = Fresh
    /\ AsideIdle

\* vector.Set(index, vals[index], tr), no iterator being in use
RangeSetCall(index) ==
    LET r == Set(vect, tr, index, RangeVals(index))
    IN  /\ ~vi.open
        /\ tr' = r.tr
        /\ call' = Called("Set", index, RangeVals(index))
        /\ ret' = Returned(EmptyValue, TRUE, 0, r.err)
        /\ vi' = NoIterator
        /\ UNCHANGED <<vect, hist, buf, store, txns>>

\* vi, err := vector.GetRange(VectRange{start, stop, step}, tr)
GetRangeCall(start, stop, step) ==
    LET r == VectorGetRange(vect, tr, VectRange(start, stop, step))
    IN  /\ ~vi.open
        /\ call' = [op |-> "GetRange", range |-> VectRange(start, stop, step)]
        /\ ret' = [err |-> r.err]
        /\ vi' = IF r.err # "nil" THEN NoIterator
                 ELSE [range |-> VectRange(start, stop, step), kvs |-> r.kvs,
                       pos |-> 0, pending |-> FALSE, open |-> TRUE,
                       seen |-> <<>>]
        /\ UNCHANGED <<vect, tr, hist, buf, store, txns>>

\* vi.Advance(): ri.Advance() tells whether there is a next item
AdvanceCall ==
    /\ vi.open /\ ~vi.pending
    /\ call' = [op |-> "Advance"]
    /\ ret' = [ok |-> vi.pos < Len(vi.kvs)]
    /\ vi' = IF vi.pos < Len(vi.kvs)
             THEN [vi EXCEPT !.pos = @ + 1, !.pending = TRUE]
             ELSE [vi EXCEPT !.open = FALSE]
    /\ UNCHANGED <<vect, tr, hist, buf, store, txns>>

\* iv, e := vi.Get(), of the item ri has advanced to
VectoratorGetCall ==
    LET r == VectoratorGet(vect, vi.kvs[vi.pos])
    IN  /\ vi.open /\ vi.pending
        /\ call' = [op |-> "Vectorator.Get"]
        /\ ret' = r
        /\ vi' = [vi EXCEPT !.pending = FALSE,
                            !.seen = IF r.err = "nil" THEN Append(@, r.iv) ELSE @]
        /\ UNCHANGED <<vect, tr, hist, buf, store, txns>>

NextRange ==
    \/ \E index \in RangeIndices : RangeSetCall(index)
    \/ \E start \in RangeEnds, stop \in RangeEnds, step \in RangeSteps :
           GetRangeCall(start, stop, step)
    \/ AdvanceCall
    \/ VectoratorGetCall

SpecRange == InitRange /\ [][NextRange]_vars

(***************************************************************************)
(* Concurrent callers.  Each runs one Push or one Pop inside db.Transact,  *)
(* in a transaction of its own: the function reads the database as it was *)
(* committed when the transaction took its read version and stages its     *)
(* writes; the commit applies them unless a transaction that committed     *)
(* after that read version wrote a key the function had read, in which     *)
(* case db.Transact runs the function again in a new transaction.          *)
(*                                                                         *)
(* store is [db, log, initial]: the committed database, the set of keys    *)
(* each commit wrote, in commit order, and the database at the start.      *)
(* txns[t] is the transaction of caller t:                                 *)
(*   op, val     what it runs: "Push" of val, or "Pop",                    *)
(*   pc          "idle" (the function is to run), "staged" (it has run and *)
(*               the commit is to come) or "done" (committed),             *)
(*   rv          its read version: the number of commits it reads after,   *)
(*   reads       the key ranges <<low, high>> it read, both ends included, *)
(*   sets, clears  the writes it staged,                                   *)
(*   at          the Size its Push read, or the top index its Pop found,   *)
(*   tries       how many times its commit was refused.                    *)
(***************************************************************************)
\* the number of concurrent callers
NumTx == 2

Txns == 1..NumTx

\* the scalar caller t pushes: int64(t), so that no two push the same
TxScalar(t) == IntScalar(t)

\* the databases the callers may start on: what Sets of "a" at indices of
\* 0..MaxIndex leave, the empty and the sparse ones included
TxInitial(v) ==
    UNION {[K -> {valPack(StringScalar(<<97>>)).bytes}] :
              K \in SUBSET {keyAt(v, i) : i \in 0..MaxIndex}}

IdleTxn(op, val) ==
    [op |-> op, val |-> val, pc |-> "idle", rv |-> 0, reads |-> {},
     sets |-> EmptyDB, clears |-> {}, at |-> 0, tries |-> 0]

\* a faulty Size: a snapshot read, tr.Snapshot().GetKey, which no later commit
\* invalidates
SizeSnapshotReads(v, db) == {}

\* the range Size reads: tr.GetKey(LastLessOrEqual(end)) reads from the key it
\* resolves to up to end
SizeReads(v, db) == {<<GetKeyLastLessOrEqual(db, RangeEnd(v)), RangeEnd(v)>>}

\* a faulty Pop: its range read is a snapshot read but for the top entry
PopReadsTopOnly(v, db) ==
    LET lastTwo == GetRange(db, RangeBegin(v), RangeEnd(v), 2, TRUE)
    IN  IF Len(lastTwo) = 0 THEN {}
        ELSE {<<lastTwo[1].Key, lastTwo[1].Key>>}

\* the range Pop reads: a reverse range read of limit 2 reads from the lower
\* key it returns, or from the begin of the range if it returns fewer than 2
PopReads(v, db) ==
    LET lastTwo == GetRange(db, RangeBegin(v), RangeEnd(v), 2, TRUE)
    IN  {<<IF Len(lastTwo) = 2 THEN lastTwo[2].Key ELSE RangeBegin(v),
           RangeEnd(v)>>}

\* key k lies in the range r
Within(k, r) == BytesCompare(k, r[1]) >= 0 /\ BytesCompare(k, r[2]) <= 0

\* the writes that turn the view before into the view after
StagedSets(before, after) ==
    [k \in {x \in DOMAIN after : x \notin DOMAIN before \/ after[x] # before[x]}
        |-> after[k]]
StagedClears(before, after) == DOMAIN before \ DOMAIN after

\* the database with the staged writes of transaction x applied
Applied(db, x) ==
    [k \in (DOMAIN db \ x.clears) \cup DOMAIN x.sets |->
        IF k \in DOMAIN x.sets THEN x.sets[k] ELSE db[k]]

\* the commit of x is refused: x writes, and a commit after its read version
\* wrote a key in a range x read
Conflicts(st, x) ==
    /\ DOMAIN x.sets \cup x.clears # {}
    /\ \E n \in (x.rv + 1)..Len(st.log) :
          \E k \in st.log[n], r \in x.reads : Within(k, r)

InitTx ==
    /\ vect = [subspace |-> Subspace, defaultValue |-> <<100>>]
    /\ tr = EmptyDB
    /\ call = Called("new", 0, NoScalar)
    /\ ret = Returned(EmptyValue, TRUE, 0, "nil")
    /\ hist = Fresh
    /\ buf = <<>>
    /\ vi = NoIterator
    /\ \E db \in TxInitial(vect) : store = [db |-> db, log |-> <<>>, initial |-> db]
    /\ \E ops \in [Txns -> {"Push", "Pop"}] :
          txns = [t \in Txns |->
                    IdleTxn(ops[t], IF ops[t] = "Push" THEN TxScalar(t) ELSE NoScalar)]

\* db.Transact calls the function of caller t: vector.Push(val, tr)
RunPush(t) ==
    LET x == txns[t]
        r == Push(vect, store.db, x.val)
    IN  /\ x.pc = "idle" /\ x.op = "Push"
        /\ r.err = "nil"
        /\ txns' = [txns EXCEPT ![t] =
                      [x EXCEPT !.pc = "staged",
                                !.rv = Len(store.log),
                                !.reads = SizeReads(vect, store.db),
                                !.sets = StagedSets(store.db, r.tr),
                                !.clears = StagedClears(store.db, r.tr),
                                !.at = Size(vect, store.db).size]]
        /\ UNCHANGED <<vect, tr, call, ret, hist, buf, vi, store>>

\* db.Transact calls the function of caller t: vector.Pop(tr)
RunPop(t) ==
    LET x == txns[t]
        r == Pop(vect, store.db)
    IN  /\ x.pc = "idle" /\ x.op = "Pop"
        /\ r.err = "nil"
        /\ txns' = [txns EXCEPT ![t] =
                      [x EXCEPT !.pc = "staged",
                                !.rv = Len(store.log),
                                !.reads = PopReads(vect, store.db),
                                !.sets = StagedSets(store.db, r.tr),
                                !.clears = StagedClears(store.db, r.tr),
                                !.at = Size(vect, store.db).size - 1]]
        /\ UNCHANGED <<vect, tr, call, ret, hist, buf, vi, store>>

\* the commit of caller t's transaction succeeds
Commit(t) ==
    LET x == txns[t]
    IN  /\ x.pc = "staged"
        /\ ~Conflicts(store, x)
        /\ store' = [store EXCEPT
                        !.db = Applied(store.db, x),
                        !.log = Append(@, DOMAIN x.sets \cup x.clears)]
        /\ txns' = [txns EXCEPT ![t] = [x EXCEPT !.pc = "done"]]
        /\ UNCHANGED <<vect, tr, call, ret, hist, buf, vi>>

\* the commit of caller t's transaction is refused: db.Transact tries again
Retry(t) ==
    LET x == txns[t]
    IN  /\ x.pc = "staged"
        /\ Conflicts(store, x)
        /\ txns' = [txns EXCEPT ![t] =
                      [IdleTxn(x.op, x.val) EXCEPT !.tries = x.tries + 1]]
        /\ UNCHANGED <<vect, tr, call, ret, hist, buf, vi, store>>

NextTx ==
    \/ \E t \in Txns : RunPush(t)
    \/ \E t \in Txns : RunPop(t)
    \/ \E t \in Txns : Commit(t)
    \/ \E t \in Txns : Retry(t)

SpecTx == InitTx /\ [][NextTx]_vars

(***************************************************************************)
(* Vocabulary of the properties.                                           *)
(***************************************************************************)
\* the greatest element of a non-empty set of integers
MaxOf(S) == CHOOSE m \in S : \A x \in S : x <= m

\* the Value a caller expects back for a scalar it stored: the marker of the
\* scalar's kind and its payload, every other field zero
ValueOf(val) ==
    CASE val.kind \in {"int64", "int"} ->
            [EmptyValue EXCEPT !.IsInt = TRUE, !.Int = val.int]
      [] val.kind \in {"float64", "float32"} ->
            [EmptyValue EXCEPT !.IsFloat = TRUE, !.Float = val.float]
      [] val.kind = "string" ->
            [EmptyValue EXCEPT !.IsString = TRUE, !.String = val.str]
      [] OTHER -> EmptyValue

\* the configured default value, as a Value
DefaultOf(v) == ValueOf(StringScalar(v.defaultValue))

SizeNow == Size(vect, tr).size
Stored == StoredIdx(vect, tr)
\* index i lies in [0, Size) and has no Stored Entry
Sparse(v, db, i) == 0 <= i /\ i < Size(v, db).size /\ keyAt(v, i) \notin DOMAIN db

\* every concurrent caller runs a Push; every caller's transaction is committed
AllPush == \A t \in Txns : txns[t].op = "Push"
AllDone == \A t \in Txns : txns[t].pc = "done"
\* Size of the database the concurrent callers started on, and of the
\* committed one
InitialSize == Size(vect, store.initial).size
CommittedSize == Size(vect, store.db)

\* the caller holds the Vectorator of its last GetRange, made on the view tr
RangeAsked == call.op \in {"GetRange", "Advance", "Vectorator.Get"}
\* the Stored Entries are exactly those of the indices 0..n-1
Dense(n) == DOMAIN tr = {keyAt(vect, i) : i \in 0..(n - 1)}
\* the items of the indices a..b-1, in ascending order, with the values Set
RangeItems(a, b) ==
    [k \in 1..(b - a) |->
        [Index |-> a + k - 1, Value |-> ValueOf(RangeVals(a + k - 1))]]

(***************************************************************************)
(* C1: starting from an empty vector (or right after Clear), after any     *)
(* sequence of Sets with no Pop, Push or Clear in between, Size returns    *)
(* max(i) + 1 over the indices Set, whatever the order of the Sets and     *)
(* whether or not an index is Set more than once.                          *)
(***************************************************************************)
C1_SizeAfterSets ==
    (~hist.other /\ hist.pops = 0 /\ hist.setIdx # {})
        => Size(vect, tr) = [size |-> MaxOf(hist.setIdx) + 1, err |-> "nil"]

\* several Sets happened, the last one below the largest index Set so far
C1_Witness ==
    /\ ~hist.other /\ hist.pops = 0
    /\ Cardinality(hist.setIdx) >= 3
    /\ call.op = "Set" /\ ret.err = "nil"
    /\ call.index < MaxOf(hist.setIdx)
    /\ SizeNow = MaxIndex + 1

(***************************************************************************)
(* C2: Pop on a vector of Size n > 0 returns the value of the Stored Entry *)
(* at index n-1 and leaves Size equal to n-1: when the entry at n-2 is     *)
(* stored, when it is a sparse gap, and when n = 1.                        *)
(***************************************************************************)
C2_PopReturnsLast ==
    [][(call'.op = "Pop" /\ SizeNow > 0) =>
          /\ SizeNow - 1 \in Stored
          /\ ret' = Returned(valUnpack(tr[keyAt(vect, SizeNow - 1)]).val,
                             FALSE, 0, "nil")
          /\ Size(vect, tr') = [size |-> SizeNow - 1, err |-> "nil"]]_vars

(***************************************************************************)
(* C3: after Set(k, v) with k >= 1 on an empty vector, the first Pop       *)
(* returns v and each following Pop that removes an index never Set        *)
(* returns the configured default value, Size going k+1, k, k-1, ... one   *)
(* step per Pop.                                                           *)
(***************************************************************************)
C3_SparsePops ==
    [][(/\ call'.op = "Pop"
        /\ ~hist.other
        /\ Cardinality(hist.setIdx) = 1
        /\ MaxOf(hist.setIdx) >= 1
        /\ hist.pops <= MaxOf(hist.setIdx)) =>
          LET k == MaxOf(hist.setIdx)
          IN  /\ SizeNow = k + 1 - hist.pops
              /\ ret' = Returned(IF hist.pops = 0 THEN ValueOf(hist.setVal)
                                 ELSE DefaultOf(vect),
                                 FALSE, 0, "nil")
              /\ Size(vect, tr') = [size |-> k - hist.pops, err |-> "nil"]]_vars

\* Set(SparseIndex, v) on the empty vector, then two Pops: the first returned
\* v and stored the default below the top, the second removed that entry,
\* returned the default, not v, stored the default below it in turn, and left
\* Size SparseIndex - 1 (for SparseIndex = 3: Size 4, 3, 2)
C3_Witness ==
    /\ call.op = "Pop" /\ ret.err = "nil"
    /\ ~hist.other /\ hist.setIdx = {SparseIndex} /\ hist.pops = 2
    /\ ret.val = DefaultOf(vect)
    /\ ret.val # ValueOf(hist.setVal)
    /\ SizeNow = SparseIndex - 1
    /\ DOMAIN tr = {keyAt(vect, SparseIndex - 2)}
    /\ valUnpack(tr[keyAt(vect, SparseIndex - 2)]).val = DefaultOf(vect)

(***************************************************************************)
(* C4: within one transaction, Push(v) immediately followed by Pop returns *)
(* v and leaves Size as it was before the Push; n Pushes followed by n     *)
(* Pops return the pushed values in reverse order.                         *)
(***************************************************************************)
C4_PushPopLIFO ==
    [][(call'.op = "Pop" /\ hist.stack # <<>>) =>
          LET n == Len(hist.stack)
          IN  /\ SizeNow = hist.base + n
              /\ ret' = Returned(ValueOf(hist.stack[n]), FALSE, 0, "nil")
              /\ Size(vect, tr') = [size |-> hist.base + n - 1, err |-> "nil"]]_vars

\* two Pushes of different scalars, then one Pop that returned the second one:
\* the first is still to be popped
C4_Witness ==
    /\ call.op = "Pop" /\ ret.err = "nil"
    /\ Len(hist.stack) = 1
    /\ ret.val # ValueOf(hist.stack[1])
    /\ hist.base >= 0
    /\ SizeNow = hist.base + 1

(***************************************************************************)
(* C5: after Clear the namespace holds no Stored Entry, Size returns 0 and *)
(* Get(i) fails with the out-of-range error for every index i, until the   *)
(* next Set or Push.                                                       *)
(***************************************************************************)
C5_ClearEmpties ==
    (hist.setIdx = {} /\ ~hist.other /\ hist.stack = <<>>) =>
        /\ GetRange(tr, RangeBegin(vect), RangeEnd(vect), 1, FALSE) = <<>>
        /\ Size(vect, tr) = [size |-> 0, err |-> "nil"]
        /\ \A i \in (-2)..(MaxIndex + 1) :
              Get(vect, tr, i) =
                  [val |-> EmptyValue, isNil |-> TRUE, err |-> "out of range"]

\* a Clear removed entries, and a Get issued after it failed
C5_Witness ==
    /\ hist.cleared
    /\ call.op = "Get" /\ call.index = 0
    /\ ret.err = "out of range"

(***************************************************************************)
(* C6: Get(index) returns an error exactly when index < 0 or index >= Size;*)
(* for every index with 0 <= index < Size it returns a Value and no error. *)
(***************************************************************************)
C6_GetErrors ==
    \A i \in (-2)..(MaxIndex + 1) :
        LET r == Get(vect, tr, i)
        IN  /\ (r.err # "nil") <=> (i < 0 \/ i >= SizeNow)
            /\ r.err = "nil" => ~r.isNil
            /\ r.err # "nil" => r.isNil /\ r.err = "out of range"

\* a Get at index Size failed on a vector that has a sparse gap and an entry
\* at a negative index
C6_Witness ==
    /\ call.op = "Get" /\ call.index = SizeNow
    /\ ret.err = "out of range"
    /\ \E i \in 0..MaxIndex : Sparse(vect, tr, i)
    /\ -1 \in Stored

(***************************************************************************)
(* C7: for an index i that has a Stored Entry, Get(i) returns the scalar   *)
(* (kind and payload) of the most recent Set or Push that wrote index i;   *)
(* Sets, Pushes and Pops that target other indices never change what       *)
(* Get(i) returns while the entry at i remains.                            *)
(***************************************************************************)
C7_GetReturnsLastWrite ==
    [][/\ (call'.op = "Set" /\ ret'.err = "nil") =>
              Get(vect, tr', call'.index) =
                  [val |-> ValueOf(call'.val), isNil |-> FALSE, err |-> "nil"]
       /\ (call'.op = "Push" /\ ret'.err = "nil") =>
              Get(vect, tr', SizeNow) =
                  [val |-> ValueOf(call'.val), isNil |-> FALSE, err |-> "nil"]
       /\ \A i \in StoredIndices :
              (/\ tr' # tr
               /\ keyAt(vect, i) \in DOMAIN tr
               /\ keyAt(vect, i) \in DOMAIN tr'
               /\ ~(call'.op = "Set" /\ call'.index = i)
               /\ ~(call'.op = "Push" /\ SizeNow = i)) =>
                  Get(vect, tr', i) = Get(vect, tr, i)]_vars

(***************************************************************************)
(* C8: for an index i with 0 <= i < Size and no Stored Entry at i, Get(i)  *)
(* returns without error the empty Value, none of IsInt, IsFloat, IsString *)
(* set, and writes nothing.                                                *)
(***************************************************************************)
C8_GetOnGapIsEmpty ==
    [][(call'.op = "Get" /\ Sparse(vect, tr, call'.index)) =>
          /\ ret' = Returned(EmptyValue, FALSE, 0, "nil")
          /\ ~ret'.val.IsInt /\ ~ret'.val.IsFloat /\ ~ret'.val.IsString
          /\ tr' = tr]_vars

\* a Get on a sparse gap returned the empty Value
C8_Witness ==
    /\ call.op = "Get" /\ Sparse(vect, tr, call.index)
    /\ ret = Returned(EmptyValue, FALSE, 0, "nil")

(***************************************************************************)
(* C9: for any index in [0, Size) with no Stored Entry a read yields the   *)
(* configured default value: Get on a sparse index returns the scalar Pop  *)
(* writes when it materializes that index, so what Get reports for an      *)
(* index does not change merely because a Pop materialized it.             *)
(***************************************************************************)
C9_SparseReadsDefault ==
    \A i \in 0..MaxIndex :
        Sparse(vect, tr, i) =>
            Get(vect, tr, i) =
                [val |-> DefaultOf(vect), isNil |-> FALSE, err |-> "nil"]

(***************************************************************************)
(* C10: after any sequence of Set, Push, Pop and Clear, Size returns 0 if  *)
(* and only if no Stored Entry exists in the vector's namespace.           *)
(***************************************************************************)
C10_SizeZeroIffEmpty ==
    (Size(vect, tr) = [size |-> 0, err |-> "nil"])
        <=> (GetRange(tr, RangeBegin(vect), RangeEnd(vect), 1, FALSE) = <<>>)

(***************************************************************************)
(* C12: whenever Get, Set, Push, Pop or Back returns an error of the Core  *)
(* (invalid index, out of range, unsupported type, no bytes or an unknown  *)
(* tag while decoding a value, a key that does not decode), it has issued  *)
(* no write and no delete: the staged Stored Entries are those before the  *)
(* call.  This includes Pop failing to decode the key or the value of the  *)
(* top entry.                                                              *)
(***************************************************************************)
C12_ErrorsWriteNothing ==
    [][(call'.op \in {"Get", "Set", "Push", "Pop", "Back"} /\ ret'.err # "nil")
          => tr' = tr]_vars

(***************************************************************************)
(* C13: Pop and Back on an empty vector return the empty Value, no kind    *)
(* marker set, with no error, issue no write or delete and leave Size at   *)
(* 0; they never fail the way Get past the end does.                       *)
(***************************************************************************)
C13_PopBackOnEmpty ==
    [][(/\ call'.op \in {"Pop", "Back"}
        /\ GetRange(tr, RangeBegin(vect), RangeEnd(vect), 1, FALSE) = <<>>) =>
          /\ ret' = Returned(EmptyValue, FALSE, 0, "nil")
          /\ ~ret'.val.IsInt /\ ~ret'.val.IsFloat /\ ~ret'.val.IsString
          /\ tr' = tr
          /\ Size(vect, tr') = [size |-> 0, err |-> "nil"]
          /\ Get(vect, tr, 0).err = "out of range"]_vars

\* a Back on a vector that a Clear emptied returned the empty Value
C13_Witness ==
    /\ call.op = "Back"
    /\ hist.cleared
    /\ GetRange(tr, RangeBegin(vect), RangeEnd(vect), 1, FALSE) = <<>>
    /\ ret = Returned(EmptyValue, FALSE, 0, "nil")

(***************************************************************************)
(* C18: Pop writes at most one entry besides deleting the top one: it      *)
(* writes the configured default at index top-1 exactly when top > 0 and   *)
(* no Stored Entry exists at top-1; when top = 0 or the entry at top-1     *)
(* exists it writes nothing.  Pop never overwrites the value of an already *)
(* stored entry.                                                           *)
(***************************************************************************)
C18_PopWritesOnlyTheGap ==
    [][(call'.op = "Pop" /\ Stored # {}) =>
          LET top == MaxOf(Stored)
              written == {k \in DOMAIN tr' : k \notin DOMAIN tr}
          IN  /\ written = IF top > 0 /\ top - 1 \notin Stored
                           THEN {keyAt(vect, top - 1)} ELSE {}
              /\ \A k \in written :
                    tr'[k] = valPack(StringScalar(vect.defaultValue)).bytes
              /\ DOMAIN tr \ DOMAIN tr' = {keyAt(vect, top)}
              /\ \A k \in DOMAIN tr \cap DOMAIN tr' : tr'[k] = tr[k]]_vars

(***************************************************************************)
(* C19: Set and Push called with a scalar of an unsupported dynamic kind   *)
(* return the unsupported-type error and issue no write: the Stored        *)
(* Entries, Size and every Get result are the same as before the call.     *)
(***************************************************************************)
C19_UnsupportedKindWritesNothing ==
    [][(/\ call'.op \in {"Set", "Push"}
        /\ call'.val.kind \notin {"int64", "int", "float64", "float32", "string"}) =>
          /\ ret'.err = "unencodable element"
          /\ tr' = tr
          /\ Size(vect, tr') = Size(vect, tr)
          /\ \A i \in (-2)..(MaxIndex + 1) :
                Get(vect, tr', i) = Get(vect, tr, i)]_vars

\* a Push of a *Value failed on a vector that holds entries
C19_Witness ==
    /\ call.op = "Push" /\ call.val = OtherScalar
    /\ ret.err = "unencodable element"
    /\ Cardinality(Stored) >= 2

(***************************************************************************)
(* C20: on a non-empty vector Back returns the value of the Stored Entry   *)
(* at index Size-1, which is the value an immediately following Pop        *)
(* returns, and Back leaves the Stored Entries and Size unchanged.         *)
(***************************************************************************)
C20_BackIsLast ==
    [][(call'.op = "Back" /\ DOMAIN tr # {}) =>
          /\ SizeNow - 1 \in Stored
          /\ ret' = Returned(valUnpack(tr[keyAt(vect, SizeNow - 1)]).val,
                             FALSE, 0, "nil")
          /\ Pop(vect, tr').err = "nil" /\ ~Pop(vect, tr').isNil
          /\ Pop(vect, tr').val = ret'.val
          /\ tr' = tr
          /\ Size(vect, tr') = Size(vect, tr)]_vars

\* a Back returned the last of several entries, whose value differs from the
\* first one's
C20_Witness ==
    /\ call.op = "Back" /\ ret.err = "nil"
    /\ Cardinality(Stored) >= 2
    /\ SizeNow = MaxIndex + 1
    /\ ret.val = valUnpack(tr[keyAt(vect, MaxIndex)]).val
    /\ ret.val # valUnpack(tr[MinKey(DOMAIN tr)]).val

(***************************************************************************)
(* C14: value codec round trip: for every supported scalar v (integer,     *)
(* float, text, the empty string and multi-byte text included),            *)
(* ValUnpack(ValPack(v)) succeeds and yields a Value whose kind marker is  *)
(* the kind of v and whose payload equals v exactly.                       *)
(***************************************************************************)
C14_CodecRoundTrip ==
    (/\ call.op = "ValUnpack"
     /\ call.val.kind \in {"int64", "int", "float64", "float32", "string"}) =>
        /\ ret = Returned(ValueOf(call.val), FALSE, 0, "nil")
        /\ ret.val.IsInt <=> call.val.kind \in {"int64", "int"}
        /\ ret.val.IsFloat <=> call.val.kind \in {"float64", "float32"}
        /\ ret.val.IsString <=> call.val.kind = "string"

\* the multi-byte text "\u2622" went through ValPack and ValUnpack
C14_Witness ==
    /\ call.op = "ValUnpack"
    /\ call.val = StringScalar(<<226, 152, 162>>)
    /\ buf = <<3, 226, 152, 162>>
    /\ ret.val.IsString /\ ret.val.String = <<226, 152, 162>>

(***************************************************************************)
(* C15, as stated: for a vector whose Stored Entries are at the indices    *)
(* 0..n-1 and for 0 <= start <= stop <= n, GetRange(start, stop) yields    *)
(* exactly the entries with index in [start, stop): each once, in          *)
(* ascending index order, as (index, decoded value) pairs, and nothing at  *)
(* index stop or beyond.  What Get has returned is at any time a prefix of *)
(* these items, and all of them once Advance has returned false.           *)
(***************************************************************************)
C15_GetRangeYieldsTheRange ==
    \A n \in 0..(MaxIndex + 2) :
        (/\ RangeAsked /\ vi.range.Step = 0
         /\ Dense(n)
         /\ 0 <= vi.range.Start /\ vi.range.Start <= vi.range.Stop
         /\ vi.range.Stop <= n) =>
            LET want == RangeItems(vi.range.Start, vi.range.Stop)
            IN  /\ Len(vi.seen) <= Len(want)
                /\ vi.seen = SubSeq(want, 1, Len(vi.seen))
                /\ ~vi.open => vi.seen = want

(***************************************************************************)
(* C15, amended: the same for 0 <= start <= stop <= n with stop >= 1.  A   *)
(* stop of 0 stands for Size, so GetRange(0, 0) yields every entry.        *)
(***************************************************************************)
C15_GetRangeYieldsTheRangeFromStop1 ==
    \A n \in 0..(MaxIndex + 2) :
        (/\ RangeAsked /\ vi.range.Step = 0
         /\ Dense(n)
         /\ 0 <= vi.range.Start /\ vi.range.Start <= vi.range.Stop
         /\ 1 <= vi.range.Stop /\ vi.range.Stop <= n) =>
            LET want == RangeItems(vi.range.Start, vi.range.Stop)
            IN  /\ Len(vi.seen) <= Len(want)
                /\ vi.seen = SubSeq(want, 1, Len(vi.seen))
                /\ ~vi.open => vi.seen = want

\* the loop over GetRange(1, MaxIndex + 1) on the entries 0..MaxIndex+1 came to
\* its end: it produced the entries 1..MaxIndex, not those at 0 and at Stop
C15_Witness ==
    /\ RangeAsked /\ ~vi.open
    /\ Dense(MaxIndex + 2)
    /\ vi.range = VectRange(1, MaxIndex + 1, 0)
    /\ Len(vi.seen) = MaxIndex
    /\ vi.seen[1] = [Index |-> 1, Value |-> ValueOf(RangeVals(1))]

(***************************************************************************)
(* C16: GetRange yields an item only for Stored Entries physically         *)
(* present: every item Get returns is a Stored Entry with its own index    *)
(* and value; for a range that contains sparse gaps the iterator produces  *)
(* no item for a gap index, so that the number of items is the number of   *)
(* Stored Entries in the range, whereas Get on the same gap index returns  *)
(* the empty Value.                                                        *)
(***************************************************************************)
C16_GetRangeSkipsGaps ==
    RangeAsked =>
        /\ \A k \in 1..Len(vi.seen) :
              /\ keyAt(vect, vi.seen[k].Index) \in DOMAIN tr
              /\ ~Sparse(vect, tr, vi.seen[k].Index)
              /\ vi.seen[k].Value = ValueOf(RangeVals(vi.seen[k].Index))
        /\ (/\ ~vi.open /\ vi.range.Step = 0
            /\ 0 <= vi.range.Start /\ vi.range.Start < vi.range.Stop) =>
              LET within == (vi.range.Start)..(vi.range.Stop - 1)
                  present == {i \in within : keyAt(vect, i) \in DOMAIN tr}
              IN  /\ Len(vi.seen) = Cardinality(present)
                  /\ {vi.seen[k].Index : k \in 1..Len(vi.seen)} = present
                  /\ \A i \in within :
                        Sparse(vect, tr, i) =>
                            Get(vect, tr, i) =
                                [val |-> EmptyValue, isNil |-> FALSE, err |-> "nil"]

\* the loop over GetRange(0, MaxIndex + 2) on a vector that holds the entries
\* 0 and MaxIndex + 1 only came to its end: two items, none for the gap at 1
C16_Witness ==
    /\ RangeAsked /\ ~vi.open
    /\ vi.range = VectRange(0, MaxIndex + 2, 0)
    /\ DOMAIN tr = {keyAt(vect, 0), keyAt(vect, MaxIndex + 1)}
    /\ Sparse(vect, tr, 1)
    /\ Len(vi.seen) = 2
    /\ vi.seen[2].Index = MaxIndex + 1

(***************************************************************************)
(* C11: when two or more Pushes run in separate, concurrent transactions   *)
(* on the same vector, the store refusing the commit of any whose Size     *)
(* read a committed write has invalidated and the caller retrying it,      *)
(* every Push eventually commits at its own distinct index: no pushed      *)
(* value and no earlier entry is overwritten or lost, and Size has grown   *)
(* by the number of Pushes once all are committed.  "Eventually" is stated *)
(* by its two halves: a Push that is not committed can always take its     *)
(* next step (run, or commit, or be refused and run again), and the commit *)
(* of a Push is refused at most once for each other Push.                  *)
(***************************************************************************)
C11_ConcurrentPushesAllCommit ==
    AllPush =>
        /\ \A t \in Txns :
              txns[t].pc = "done" =>
                  /\ keyAt(vect, txns[t].at) \in DOMAIN store.db
                  /\ store.db[keyAt(vect, txns[t].at)] = valPack(txns[t].val).bytes
                  /\ txns[t].at >= InitialSize
        /\ \A t, u \in Txns :
              (t # u /\ txns[t].pc = "done" /\ txns[u].pc = "done") =>
                  txns[t].at # txns[u].at
        /\ \A k \in DOMAIN store.initial :
              k \in DOMAIN store.db /\ store.db[k] = store.initial[k]
        /\ \A t \in Txns :
              /\ txns[t].tries <= NumTx - 1
              /\ txns[t].pc = "idle" => Push(vect, store.db, txns[t].val).err = "nil"
              /\ txns[t].pc = "staged" => ENABLED (Commit(t) \/ Retry(t))
        /\ AllDone =>
              CommittedSize = [size |-> InitialSize + NumTx, err |-> "nil"]

\* every Push is committed on a vector that held entries, and the commit of
\* one was refused and retried on the way
C11_Witness ==
    /\ AllPush /\ AllDone
    /\ store.initial # EmptyDB
    /\ \E t \in Txns : txns[t].tries >= 1
    /\ CommittedSize.size = InitialSize + NumTx

(***************************************************************************)
(* C17: two Pushes issued in separate transactions that both read Size     *)
(* before either commits compute the same target index; nothing in the     *)
(* Vector separates them, so if the store let both commit, the later write *)
(* would replace the earlier one at that index and Size would grow by 1    *)
(* instead of 2.                                                           *)
(***************************************************************************)
C17_RacingPushesCollide ==
    \A t, u \in Txns :
        (/\ t # u
         /\ txns[t].op = "Push" /\ txns[u].op = "Push"
         /\ txns[t].pc = "staged" /\ txns[u].pc = "staged"
         /\ txns[t].rv = txns[u].rv) =>
            /\ txns[t].at = txns[u].at
            /\ DOMAIN txns[t].sets = {keyAt(vect, txns[t].at)}
            /\ DOMAIN txns[u].sets = {keyAt(vect, txns[t].at)}
            /\ txns[t].clears = {} /\ txns[u].clears = {}
            /\ Len(store.log) = txns[t].rv =>
                  LET both == Applied(Applied(store.db, txns[t]), txns[u])
                  IN  /\ Size(vect, both) =
                            [size |-> CommittedSize.size + 1, err |-> "nil"]
                      /\ both[keyAt(vect, txns[t].at)] = valPack(txns[u].val).bytes
                      /\ \A k \in DOMAIN both : both[k] # valPack(txns[t].val).bytes

\* two Pushes have read the Size of a vector that holds entries and staged
\* their writes, neither being committed
C17_Witness ==
    \E t, u \in Txns :
        /\ t # u
        /\ txns[t].op = "Push" /\ txns[u].op = "Push"
        /\ txns[t].pc = "staged" /\ txns[u].pc = "staged"
        /\ txns[t].rv = Len(store.log) /\ txns[u].rv = Len(store.log)
        /\ store.db # EmptyDB
        /\ txns[t].sets # txns[u].sets

(***************************************************************************)
(* C21: ValUnpack returns an error for zero-length input and for any first *)
(* byte other than the three tags 0x01, 0x02, 0x03; every decode that      *)
(* succeeds sets exactly one of IsInt, IsFloat, IsString, so that the      *)
(* empty Value, no marker set, is never the result of a successful decode. *)
(***************************************************************************)
C21_DecodeNeverYieldsEmpty ==
    call.op = "ValUnpack" =>
        /\ Len(buf) = 0 => ret.err = "No Byte array to Decode"
        /\ (Len(buf) > 0 /\ buf[1] \notin {1, 2, 3}) => ret.err = "unknown typecode"
        /\ ret.err = "nil" =>
              /\ Cardinality({m \in {"IsInt", "IsFloat", "IsString"} : ret.val[m]}) = 1
              /\ ret.val # EmptyValue
              /\ buf[1] = 1 <=> ret.val.IsInt
              /\ buf[1] = 2 <=> ret.val.IsFloat
              /\ buf[1] = 3 <=> ret.val.IsString

\* bytes that would be the int64 258 but for their type code 0x04 were refused
C21_Witness ==
    /\ call.op = "ValUnpack" /\ call.val = NoScalar
    /\ buf = <<4>> \o Int64Bytes(258)
    /\ ret.err = "unknown typecode"
    /\ ValUnpack(<<1>> \o SubSeq(buf, 2, 9)).err = "nil"
    /\ ValUnpack(<<1>> \o SubSeq(buf, 2, 9)).val.Int = 258

(***************************************************************************)
(* C22: the key encoding preserves order, negative indices included: for   *)
(* all indices i1 < i2, keyAt(i1) < keyAt(i2) in byte-lexicographic order, *)
(* and every key lies strictly between the begin and the end boundary key  *)
(* of the namespace, so that the greatest key at or before the end         *)
(* boundary is the key of the largest stored index.                        *)
(***************************************************************************)
C22_KeyOrderIsIndexOrder ==
    (call.op = "keyAt" /\ hist.op = "keyAt") =>
        LET i1 == hist.index
            i2 == call.index
            k1 == hist.key
            k2 == buf
            db == DBSet(DBSet(EmptyDB, k1, <<3>>), k2, <<3>>)
        IN  /\ i1 < i2 <=> BytesCompare(k1, k2) = -1
            /\ i1 = i2 <=> BytesCompare(k1, k2) = 0
            /\ BytesCompare(RangeBegin(vect), k2) = -1
            /\ BytesCompare(k2, RangeEnd(vect)) = -1
            /\ GetKeyLastLessOrEqual(db, RangeEnd(vect)) = IF i1 < i2 THEN k2 ELSE k1
            /\ indexAt(vect, GetKeyLastLessOrEqual(db, RangeEnd(vect))) =
                  [index |-> IF i1 < i2 THEN i2 ELSE i1, err |-> "nil"]

\* the keys of -256 and -255 were asked for: the first, of two bytes, is the
\* longer and the lesser one
C22_Witness ==
    /\ call.op = "keyAt" /\ hist.op = "keyAt"
    /\ hist.index = -256 /\ call.index = -255
    /\ Len(hist.key) = Len(buf) + 1
    /\ BytesCompare(hist.key, buf) = -1

(***************************************************************************)
(* C23: namespace isolation.  Every key Set, Push, Pop and Clear write or  *)
(* delete lies inside the namespace of the Vector they are called on, and  *)
(* what Size, Get, Back and Pop return depends only on the keys inside it; *)
(* for two Vectors on disjoint namespaces of one store, an operation on    *)
(* one leaves Size and every Get result of the other unchanged, and Size   *)
(* returns 0 for an empty namespace even when keys exist below it.         *)
(***************************************************************************)
C23_NamespaceIsolation ==
    [][\A v \in Vectors :
          call'.on = v.subspace =>
              LET w == Neighbour(vect, v)
                  own == Inside(v, tr)
                  pop == Pop(v, own)
              IN  /\ \A k \in Touched(tr, tr') :
                        /\ HasPrefix(k, v.subspace)
                        /\ BytesCompare(RangeBegin(v), k) <= 0
                        /\ BytesCompare(k, RangeEnd(v)) = -1
                  /\ call'.op = "Size" =>
                        /\ ret' = Returned(EmptyValue, TRUE, Size(v, own).size,
                                           Size(v, own).err)
                        /\ own = EmptyDB => ret'.size = 0 /\ ret'.err = "nil"
                  /\ call'.op = "Get" =>
                        LET r == Get(v, own, call'.index)
                        IN  ret' = Returned(r.val, r.isNil, 0, r.err)
                  /\ call'.op = "Back" =>
                        LET r == Back(v, own)
                        IN  ret' = Returned(r.val, r.isNil, 0, r.err)
                  /\ call'.op = "Pop" =>
                        /\ ret' = Returned(pop.val, pop.isNil, 0, pop.err)
                        /\ Inside(v, tr') = pop.tr
                  /\ call'.op = "Push" => Inside(v, tr') = Push(v, own, call'.val).tr
                  /\ tr' # tr =>
                        /\ Inside(w, tr') = Inside(w, tr)
                        /\ Size(w, tr') = Size(w, tr)
                        /\ \A i \in 0..(MaxIndex + 1) :
                              Get(w, tr', i) = Get(w, tr, i)]_vars

\* Size of the first Vector returned 0: its namespace is empty, while the
\* second Vector, below it, holds MaxIndex + 1 entries, and keys of neither
\* lie below and above
C23_Witness ==
    /\ call.op = "Size" /\ call.on = vect.subspace
    /\ ret = Returned(EmptyValue, TRUE, 0, "nil")
    /\ Inside(vect, tr) = EmptyDB
    /\ ForeignKeys \subseteq DOMAIN tr
    /\ Size(OtherVect(vect), tr).size = MaxIndex + 1
    /\ GetKeyLastLessOrEqual(tr, RangeEnd(vect)) = <<21, 6, 20>>

(***************************************************************************)
(* C24: under the store's conflict detection, concurrent Push and Pop      *)
(* transactions only commit in ways equivalent to a serial order, that of  *)
(* their commits: a committed Push writes at the index equal to Size at    *)
(* its position in that order, and nothing else; a committed Pop removes   *)
(* the entry that is the last one there, and writes what a Pop run there   *)
(* writes.  A Pop that found the vector empty writes nothing: its position *)
(* is that of its read, and it leaves the database as it is.               *)
(***************************************************************************)
C24_CommitsAreSerial ==
    [][\A t \in Txns :
          (txns[t].pc = "staged" /\ txns'[t].pc = "done") =>
              LET x == txns[t]
                  sz == Size(vect, store.db)
              IN  /\ x.op = "Push" =>
                        /\ sz.err = "nil" /\ x.at = sz.size
                        /\ DOMAIN x.sets = {keyAt(vect, sz.size)} /\ x.clears = {}
                        /\ store'.db = Push(vect, store.db, x.val).tr
                        /\ Size(vect, store'.db) = [size |-> sz.size + 1, err |-> "nil"]
                  /\ (x.op = "Pop" /\ x.at >= 0) =>
                        /\ sz.err = "nil" /\ x.at = sz.size - 1
                        /\ x.clears = {keyAt(vect, sz.size - 1)}
                        /\ store'.db = Pop(vect, store.db).tr
                        /\ Size(vect, store'.db) = [size |-> sz.size - 1, err |-> "nil"]
                  /\ (x.op = "Pop" /\ x.at < 0) =>
                        /\ x.at = -1
                        /\ DOMAIN x.sets = {} /\ x.clears = {}
                        /\ store'.db = store.db]_vars

\* a Pop, refused once because a Push had committed since its read, was run
\* again and removed the entry that Push had written: the vector, which held
\* entries at the start, is as it was
C24_Witness ==
    \E t, u \in Txns :
        /\ txns[t].op = "Pop" /\ txns[t].pc = "done" /\ txns[t].tries = 1
        /\ txns[u].op = "Push" /\ txns[u].pc = "done"
        /\ txns[t].at = InitialSize /\ txns[u].at = InitialSize
        /\ InitialSize > 0
        /\ store.db = store.initial

(***************************************************************************)
(* C25: in any state reached by Set, Push, Pop and Clear with non-negative *)
(* indices, a Push that succeeds, immediately followed by Pop, leaves the  *)
(* Stored Entries, keys and values, exactly as they were before the Push.  *)
(* The Push adds one entry, at the index Size, above all others; the Pop   *)
(* that follows removes that entry and writes nothing: the immediate       *)
(* predecessor, if the vector was not empty, is stored.                    *)
(***************************************************************************)
C25_PushPopRestores ==
    [][/\ (/\ call'.op = "Push" /\ ret'.err = "nil"
            /\ \A i \in Stored : i >= 0) =>
              /\ keyAt(vect, SizeNow) \notin DOMAIN tr
              /\ tr' = DBSet(tr, keyAt(vect, SizeNow), valPack(call'.val).bytes)
              /\ Pop(vect, tr').err = "nil"
              /\ Pop(vect, tr').tr = tr
       /\ (/\ call.op = "Push" /\ ret.err = "nil"
            /\ call'.op = "Pop"
            /\ \A i \in Stored : i >= 0) =>
              /\ ret'.err = "nil"
              /\ SizeNow >= 2 => SizeNow - 2 \in Stored
              /\ DOMAIN tr' \ DOMAIN tr = {}
              /\ tr' = DBClear(tr, keyAt(vect, SizeNow - 1))]_vars

\* "a" was pushed on a vector whose only entry, at index 0, was int64(-2), and
\* popped at once: the entry at 0 is still int64(-2), not the default
C25_Witness ==
    /\ call.op = "Pop"
    /\ ret = Returned(ValueOf(StringScalar(<<97>>)), FALSE, 0, "nil")
    /\ hist.stack = <<>> /\ hist.other
    /\ Stored = {0}
    /\ tr[keyAt(vect, 0)] = valPack(IntScalar(-2)).bytes
    /\ tr[keyAt(vect, 0)] # valPack(StringScalar(vect.defaultValue)).bytes

====
